---- MODULE Spec2Model ----
(***************************************************************************)
(* A model of AuthCookieStorage (src/lib/cookie_storage.ts): one store     *)
(* instance, the browser's cookie jar behind document.cookie, the clock    *)
(* and the document's location.                                            *)
(*                                                                         *)
(* Strings are sequences of characters.  A character is a one-letter       *)
(* string; the segments of a signed token ("h", "s", "pE0", ...) stand for *)
(* runs of base64url letters and are characters too.  An optional value    *)
(* is None (JavaScript's undefined) or Some(v).                            *)
(***************************************************************************)
EXTENDS Integers, Sequences, FiniteSets, TLC

VARIABLES
    client_side,    \* typeof window !== "undefined"
    clock,          \* new Date(), milliseconds since the epoch
    location,       \* the path of the document's URL, a sequence of segments
    jar,            \* the browser's cookie store, in creation order
    prefix,         \* this.prefix
    id_token,       \* this.id_token
    access_token,   \* this.access_token
    refresh_token,  \* this.refresh_token
    persist,        \* this.persist
    user,           \* this.user
    cookie_string,  \* this.cookie_string
    last,           \* the last call: its name, arguments, outcome and cookie writes
    nops            \* the number of steps taken

vars == <<client_side, clock, location, jar, prefix, id_token, access_token,
          refresh_token, persist, user, cookie_string, last, nops>>

store == <<prefix, id_token, access_token, refresh_token, persist, user,
           cookie_string>>

(***************************************************************************)
(* Bounds.                                                                 *)
(***************************************************************************)
\* The steps of a behaviour.
MaxOps == 3
\* The largest exp claim, in seconds.
MaxExp == 1
\* The clock runs from 0 to MaxTicks half-seconds.
MaxTicks == 3

(***************************************************************************)
(* Program constants.                                                      *)
(***************************************************************************)
DAY == 86400
MsPerSecond == 1000

(***************************************************************************)
(* Optional values and JavaScript truthiness.                              *)
(***************************************************************************)
None == <<>>
Some(v) == <<v>>
Get(m) == m[1]

\* !x is false for a non-empty string and for true.
TruthyString(m) == m /= None /\ Get(m) /= <<>>
TruthyBool(m) == m /= None /\ Get(m)

(***************************************************************************)
(* Strings.                                                                *)
(***************************************************************************)
\* The first index of character c in s, 0 when there is none.
IndexOf(s, c) ==
    IF \E i \in 1..Len(s) : s[i] = c
    THEN CHOOSE i \in 1..Len(s) : s[i] = c /\ \A j \in 1..(i - 1) : s[j] /= c
    ELSE 0

RECURSIVE Split(_, _)
Split(s, c) ==
    LET i == IndexOf(s, c)
    IN  IF i = 0 THEN <<s>>
        ELSE <<SubSeq(s, 1, i - 1)>> \o Split(SubSeq(s, i + 1, Len(s)), c)

RECURSIVE TrimStart(_)
TrimStart(s) == IF s /= <<>> /\ Head(s) = " " THEN TrimStart(Tail(s)) ELSE s

RECURSIVE TrimEnd(_)
TrimEnd(s) ==
    IF s /= <<>> /\ s[Len(s)] = " " THEN TrimEnd(SubSeq(s, 1, Len(s) - 1)) ELSE s

Trim(s) == TrimEnd(TrimStart(s))

(***************************************************************************)
(* encodeURIComponent and decodeURIComponent on the model's alphabet: the  *)
(* reserved characters are escaped as "%" and two hexadecimal digits.      *)
(***************************************************************************)
Reserved == {";", "=", "%", " ", "\""}

HexOf(c) ==
    CASE c = ";" -> <<"3", "B">>
      [] c = "=" -> <<"3", "D">>
      [] c = "%" -> <<"2", "5">>
      [] c = " " -> <<"2", "0">>
      [] c = "\"" -> <<"2", "2">>

Escapes == {HexOf(c) : c \in Reserved}

CharOfHex(h) == CHOOSE c \in Reserved : HexOf(c) = h

RECURSIVE encodeURIComponent(_)
encodeURIComponent(s) ==
    IF s = <<>> THEN <<>>
    ELSE (IF Head(s) \in Reserved THEN <<"%">> \o HexOf(Head(s)) ELSE <<Head(s)>>)
         \o encodeURIComponent(Tail(s))

\* None when the string holds a malformed escape (a URIError).
RECURSIVE decodeURIComponent(_)
decodeURIComponent(s) ==
    IF s = <<>> THEN Some(<<>>)
    ELSE IF Head(s) /= "%"
         THEN LET rest == decodeURIComponent(Tail(s))
              IN  IF rest = None THEN None ELSE Some(<<Head(s)>> \o Get(rest))
         ELSE IF Len(s) >= 3 /\ SubSeq(s, 2, 3) \in Escapes
              THEN LET rest == decodeURIComponent(SubSeq(s, 4, Len(s)))
                   IN  IF rest = None THEN None
                       ELSE Some(<<CharOfHex(SubSeq(s, 2, 3))>> \o Get(rest))
              ELSE None

(***************************************************************************)
(* The cookie package: serialize and parse.  A serialized cookie keeps its *)
(* "name=value" part as a string and its attributes apart.                 *)
(***************************************************************************)
\* cookie.serialize(name, val, options): the name is written as it is, the
\* value through encodeURIComponent.
serialize(name, val, options) ==
    [pair    |-> name \o <<"=">> \o encodeURIComponent(val),
     maxAge  |-> options.maxAge,
     path    |-> options.path,
     expires |-> options.expires]

\* tryDecode: the decoded value, or the value itself when decoding throws.
tryDecode(val) ==
    LET d == decodeURIComponent(val) IN IF d = None THEN val ELSE Get(d)

\* A value that starts with a quote loses its first and its last character.
Unquote(val) ==
    IF val /= <<>> /\ Head(val) = "\"" THEN SubSeq(val, 2, Len(val) - 1) ELSE val

\* The value of key in a parsed cookie mapping, None when it has none.
Lookup(obj, key) ==
    IF \E i \in 1..Len(obj) : obj[i][1] = key
    THEN Some(obj[CHOOSE i \in 1..Len(obj) : obj[i][1] = key][2])
    ELSE None

\* The pairs of a cookie string from the left: a piece without "=" is
\* skipped and the first value given to a key is the one kept.
RECURSIVE ParsePairs(_, _)
ParsePairs(pairs, obj) ==
    IF pairs = <<>> THEN obj
    ELSE LET pair == Head(pairs)
             eq == IndexOf(pair, "=")
             key == Trim(SubSeq(pair, 1, eq - 1))
             val == Unquote(Trim(SubSeq(pair, eq + 1, Len(pair))))
         IN  IF eq = 0 \/ Lookup(obj, key) /= None
             THEN ParsePairs(Tail(pairs), obj)
             ELSE ParsePairs(Tail(pairs), Append(obj, <<key, tryDecode(val)>>))

\* cookie.parse(str): a sequence of <<key, value>>, the keys distinct.
parse(str) == ParsePairs(Split(str, ";"), <<>>)

(***************************************************************************)
(* The browser's cookie store behind document.cookie.  A stored cookie is  *)
(* [name, value, path, expires]: path a sequence of segments (<<>> is      *)
(* "/"), expires None for a session cookie or Some(seconds).               *)
(***************************************************************************)
\* The default path of a cookie set without a Path attribute: the
\* document's path up to, not including, its last "/".
DefaultPath(loc) == IF Len(loc) <= 1 THEN <<>> ELSE SubSeq(loc, 1, Len(loc) - 1)

PathMatches(cookiePath, loc) ==
    Len(cookiePath) <= Len(loc) /\ SubSeq(loc, 1, Len(cookiePath)) = cookiePath

Expired(expires, now) == expires /= None /\ Get(expires) <= now \div MsPerSecond

\* The expiry time of a cookie being set: Max-Age wins over Expires.
ExpiryOf(sc, now) ==
    IF sc.maxAge /= None
    THEN Some(IF Get(sc.maxAge) <= 0 THEN 0
              ELSE now \div MsPerSecond + Get(sc.maxAge))
    ELSE sc.expires

\* document.cookie = sc at time now in a document at loc.
SetCookie(j, sc, now, loc) ==
    LET nv == Head(Split(sc.pair, ";"))
        eq == IndexOf(nv, "=")
        c == [name    |-> Trim(SubSeq(nv, 1, eq - 1)),
              value   |-> Trim(SubSeq(nv, eq + 1, Len(nv))),
              path    |-> IF sc.path /= None THEN Get(sc.path) ELSE DefaultPath(loc),
              expires |-> ExpiryOf(sc, now)]
        Same(i) == j[i].name = c.name /\ j[i].path = c.path
        Other(old) == ~(old.name = c.name /\ old.path = c.path)
    IN  IF eq = 0 \/ c.name = <<>> THEN j
        ELSE IF Expired(c.expires, now) THEN SelectSeq(j, Other)
        ELSE IF \E i \in 1..Len(j) : Same(i)
             THEN [i \in 1..Len(j) |-> IF Same(i) THEN c ELSE j[i]]
             ELSE Append(j, c)

RECURSIVE SetCookies(_, _, _, _)
SetCookies(j, scs, now, loc) ==
    IF scs = <<>> THEN j
    ELSE SetCookies(SetCookie(j, Head(scs), now, loc), Tail(scs), now, loc)

\* The cookies a document at loc sees, those with longer paths first and,
\* among equal paths, the earlier created first.
RECURSIVE VisibleFrom(_, _, _, _)
VisibleFrom(j, loc, now, n) ==
    LET AtDepth(c) == Len(c.path) = n /\ PathMatches(c.path, loc)
                      /\ ~Expired(c.expires, now)
    IN  SelectSeq(j, AtDepth)
        \o (IF n = 0 THEN <<>> ELSE VisibleFrom(j, loc, now, n - 1))

RECURSIVE JoinCookies(_)
JoinCookies(cs) ==
    IF cs = <<>> THEN <<>>
    ELSE Head(cs).name \o <<"=">> \o Head(cs).value
         \o (IF Len(cs) = 1 THEN <<>> ELSE <<";", " ">> \o JoinCookies(Tail(cs)))

\* The value read from document.cookie.
DocumentCookie(j, loc, now) == JoinCookies(VisibleFrom(j, loc, now, Len(loc)))

(***************************************************************************)
(* jwt-decode: the second "."-separated segment of the token, base64url    *)
(* decoded and parsed as JSON.  Claims are [isNull, exp, sub].             *)
(***************************************************************************)
EmptyClaims == [isNull |-> FALSE, exp |-> None, sub |-> None]
NullClaims == [isNull |-> TRUE, exp |-> None, sub |-> None]

\* The segments that are base64url of a JSON text: "pE<n>" of {"exp": n},
\* "pSub" of {"sub": "u"}, "pNull" of null.
ExpSegments == <<"pE0", "pE1", "pE2", "pE3", "pE4">>

JsonOf(segment) ==
    IF \E n \in 1..Len(ExpSegments) : ExpSegments[n] = segment
    THEN Some([isNull |-> FALSE,
               exp |-> Some((CHOOSE n \in 1..Len(ExpSegments) : ExpSegments[n] = segment) - 1),
               sub |-> None])
    ELSE IF segment = "pSub" THEN Some([isNull |-> FALSE, exp |-> None, sub |-> Some("u")])
    ELSE IF segment = "pNull" THEN Some(NullClaims)
    ELSE None

\* jwt(token): Some(payload), or None when it throws InvalidTokenError.
jwt(token) ==
    IF token = None THEN None
    ELSE LET parts == Split(Get(token), ".")
         IN  IF Len(parts) < 2 \/ Len(parts[2]) /= 1 THEN None
             ELSE JsonOf(parts[2][1])

(***************************************************************************)
(* AuthCookieStorage.                                                      *)
(***************************************************************************)
\* `${this.prefix}:id_token` and its like.
CookieName(p, key) == p \o <<":", key>>

\* TokensIn taking persist from the text of the keep cookie.
TokensInLiteralKeep(p, str) ==
    LET cookies == parse(str)
    IN  [id_token      |-> Lookup(cookies, CookieName(p, "id_token")),
         refresh_token |-> Lookup(cookies, CookieName(p, "refresh_token")),
         access_token  |-> Lookup(cookies, CookieName(p, "access_token")),
         persist       |-> Some(Lookup(cookies, CookieName(p, "keep")) = Some(<<"true">>))]

\* The four fields getTokens reads from a cookie string.
TokensIn(p, str) ==
    LET cookies == parse(str)
    IN  [id_token      |-> Lookup(cookies, CookieName(p, "id_token")),
         refresh_token |-> Lookup(cookies, CookieName(p, "refresh_token")),
         access_token  |-> Lookup(cookies, CookieName(p, "access_token")),
         persist       |-> Some(TruthyString(Lookup(cookies, CookieName(p, "keep"))))]

\* add(new Date(), { years: 1 }), in seconds as Expires carries it (a year
\* of 365 days).
OneYearAhead(now) == now \div MsPerSecond + 365 * DAY

\* cookies_options with the max-age left out.
cookies_options_no_max_age(p, now) ==
    [expires |-> IF TruthyBool(p) THEN Some(OneYearAhead(now)) ELSE None,
     maxAge  |-> None,
     path    |-> None]

\* cookies_options of setTokens.
cookies_options(p, now) ==
    [expires |-> IF TruthyBool(p) THEN Some(OneYearAhead(now)) ELSE None,
     maxAge  |-> IF TruthyBool(p) THEN Some(365 * DAY) ELSE None,
     path    |-> None]

\* setTokens expiring the keep cookie when it does not persist.
SetTokensCookiesExpiringKeep(p, id, acc, ref, per, now) ==
    LET options == cookies_options(per, now)
        past == [expires |-> Some(now \div MsPerSecond), path |-> None, maxAge |-> None]
    IN  <<serialize(CookieName(p, "id_token"), id, options),
          serialize(CookieName(p, "access_token"), acc, options),
          serialize(CookieName(p, "refresh_token"), ref, options)>>
        \o (IF TruthyBool(per)
            THEN <<serialize(CookieName(p, "keep"), <<"true">>, options)>>
            ELSE <<serialize(CookieName(p, "keep"), <<>>, past)>>)

\* The cookies setTokens serializes, in the order it writes them.
SetTokensCookies(p, id, acc, ref, per, now) ==
    LET options == cookies_options(per, now)
    IN  <<serialize(CookieName(p, "id_token"), id, options),
          serialize(CookieName(p, "access_token"), acc, options),
          serialize(CookieName(p, "refresh_token"), ref, options)>>
        \o (IF TruthyBool(per)
            THEN <<serialize(CookieName(p, "keep"), <<"true">>, options)>>
            ELSE <<>>)

\* clearTokens leaving the keep cookie out.
ClearTokensCookiesNoKeep(p, now) ==
    LET options == [expires |-> Some(now \div MsPerSecond), path |-> Some(<<>>),
                    maxAge |-> None]
        cookies_to_delete == <<CookieName(p, "access_token"), CookieName(p, "id_token"),
                               CookieName(p, "refresh_token")>>
    IN  [i \in 1..3 |-> serialize(cookies_to_delete[i], <<>>, options)]

\* The cookies clearTokens serializes, in the order it writes them.
ClearTokensCookies(p, now) ==
    LET options == [expires |-> Some(now \div MsPerSecond), path |-> Some(<<>>),
                    maxAge |-> None]
        cookies_to_delete == <<CookieName(p, "access_token"), CookieName(p, "id_token"),
                               CookieName(p, "refresh_token"), CookieName(p, "keep")>>
    IN  [i \in 1..4 |-> serialize(cookies_to_delete[i], <<>>, options)]

\* decode() without its catch: a failed decoding leaves no claims.
DecodedUserNoCatch(token) == jwt(token)

\* The claims decode() leaves in this.user.
DecodedUser(token) == IF jwt(token) = None THEN Some(EmptyClaims) ELSE jwt(token)

\* What isExpired() answers once decode() has run: "throw" when the
\* destructuring of a null user throws a TypeError.
ExpiredAnswer(u, now) ==
    IF Get(u).isNull THEN "throw"
    ELSE IF Get(u).exp = None \/ Get(Get(u).exp) = 0 THEN "false"
    ELSE IF now > Get(Get(u).exp) * MsPerSecond THEN "true" ELSE "false"

(***************************************************************************)
(* The inputs.                                                             *)
(***************************************************************************)
\* The prefix is any string the caller passes: a name, a scoped name, a name
\* written with a space before it.
Prefixes == {<<"app">>, <<"@", "my-app">>, <<" ", "app">>}

JwtExp(n) == <<"h", ".", ExpSegments[n + 1], ".", "s">>
JwtNoExp == <<"h", ".", "pSub", ".", "s">>
JwtNull == <<"h", ".", "pNull", ".", "s">>
Malformed == <<"z">>

IdTokens == {JwtExp(n) : n \in 0..MaxExp} \cup {JwtNoExp, JwtNull, Malformed, <<>>}

\* What setTokens is called with: two triplets under every persist value,
\* and every identity token.
SetTokensInputs ==
    {<<JwtExp(1), <<"a">>, <<"r">>, per>> : per \in {None, Some(TRUE), Some(FALSE)}}
    \cup {<<Malformed, <<"b", ";", "%">>, <<"q", "=", " ">>, per>> : per \in {Some(TRUE), Some(FALSE)}}
    \cup {<<id, <<"a">>, <<"r">>, Some(FALSE)>> : id \in IdTokens}

\* Cookie strings that come from elsewhere (a request's Cookie header).
SampleCookies(p) ==
    {CookieName(p, "id_token") \o <<"=">> \o JwtExp(1) \o <<";", " ">>
        \o CookieName(p, "access_token") \o <<"=", "a", ";", " ">>
        \o CookieName(p, "refresh_token") \o <<"=", "r", ";", " ">>
        \o CookieName(p, "keep") \o <<"=", "false">>,
     <<"x", "=", "1", ";", " ">> \o CookieName(p, "id_token") \o <<"=", "z", ";", " ">>
        \o CookieName(p, "keep") \o <<"=">>}

DocPaths == {<<>>, <<"app", "page">>, <<"app", "page", "x">>}

ClockValues == {k * 500 : k \in 0..MaxTicks}

Call(op, args, ret, writes) == [op |-> op, args |-> args, ret |-> ret, writes |-> writes]

(***************************************************************************)
(* The state after construction.                                           *)
(***************************************************************************)
Init ==
    /\ client_side \in BOOLEAN
    /\ clock = 0
    /\ location = <<>>
    /\ jar = <<>>
    /\ prefix \in Prefixes
    /\ user = None
    /\ nops = 0
    /\ \E arg \in {None} \cup {Some(s) : s \in SampleCookies(prefix)} :
          /\ last = Call("constructor", <<arg>>, "this", <<>>)
          /\ IF ~TruthyString(arg)
             THEN /\ cookie_string = None
                  /\ id_token = None
                  /\ access_token = None
                  /\ refresh_token = None
                  /\ persist = None
             ELSE LET t == TokensIn(prefix, Get(arg))
                  IN  /\ cookie_string = arg
                      /\ id_token = t.id_token
                      /\ access_token = t.access_token
                      /\ refresh_token = t.refresh_token
                      /\ persist = t.persist

(***************************************************************************)
(* The operations.                                                         *)
(***************************************************************************)
\* getTokens keeping the field it finds no cookie for.
GetTokensMerging(arg) ==
    /\ nops < MaxOps
    /\ nops' = nops + 1
    /\ last' = Call("getTokens", <<arg>>, "this", <<>>)
    /\ UNCHANGED <<client_side, clock, location, jar, prefix, user>>
    /\ LET cs == IF arg = None THEN cookie_string ELSE arg
       IN  IF ~TruthyString(cs) /\ ~TruthyString(cookie_string)
           THEN UNCHANGED <<id_token, access_token, refresh_token, persist, cookie_string>>
           ELSE LET t == TokensIn(prefix, IF TruthyString(cs) THEN Get(cs) ELSE <<>>)
                IN  /\ cookie_string' = cs
                    /\ access_token' = IF t.access_token = None THEN access_token
                                       ELSE t.access_token
                    /\ id_token' = IF t.id_token = None THEN id_token ELSE t.id_token
                    /\ refresh_token' = IF t.refresh_token = None THEN refresh_token
                                        ELSE t.refresh_token
                    /\ persist' = t.persist

\* getTokens without its early return.
GetTokensNoEarlyReturn(arg) ==
    /\ nops < MaxOps
    /\ nops' = nops + 1
    /\ last' = Call("getTokens", <<arg>>, "this", <<>>)
    /\ UNCHANGED <<client_side, clock, location, jar, prefix, user>>
    /\ LET cs == IF arg = None THEN cookie_string ELSE arg
           t == TokensIn(prefix, IF TruthyString(cs) THEN Get(cs) ELSE <<>>)
       IN  /\ cookie_string' = cs
           /\ access_token' = t.access_token
           /\ id_token' = t.id_token
           /\ refresh_token' = t.refresh_token
           /\ persist' = t.persist

\* getTokens(arg): arg is None when the argument is left out.
GetTokens(arg) ==
    /\ nops < MaxOps
    /\ nops' = nops + 1
    /\ last' = Call("getTokens", <<arg>>, "this", <<>>)
    /\ UNCHANGED <<client_side, clock, location, jar, prefix, user>>
    /\ LET cs == IF arg = None THEN cookie_string ELSE arg
       IN  IF ~TruthyString(cs) /\ ~TruthyString(cookie_string)
           THEN UNCHANGED <<id_token, access_token, refresh_token, persist, cookie_string>>
           ELSE LET t == TokensIn(prefix, IF TruthyString(cs) THEN Get(cs) ELSE <<>>)
                IN  /\ cookie_string' = cs
                    /\ access_token' = t.access_token
                    /\ id_token' = t.id_token
                    /\ refresh_token' = t.refresh_token
                    /\ persist' = t.persist

\* setTokens decoding the new id_token into the claims.
SetTokensDecoding(id, acc, ref, per) ==
    /\ nops < MaxOps
    /\ nops' = nops + 1
    /\ UNCHANGED <<client_side, clock, location, prefix, cookie_string>>
    /\ IF ~client_side
       THEN /\ last' = Call("setTokens", <<id, acc, ref, per>>, "throw", <<>>)
            /\ UNCHANGED <<id_token, access_token, refresh_token, persist, jar, user>>
       ELSE LET cookies == SetTokensCookies(prefix, id, acc, ref, per, clock)
            IN  /\ access_token' = Some(acc)
                /\ id_token' = Some(id)
                /\ refresh_token' = Some(ref)
                /\ persist' = Some(TruthyBool(per))
                /\ user' = DecodedUser(Some(id))
                /\ jar' = SetCookies(jar, cookies, clock, location)
                /\ last' = Call("setTokens", <<id, acc, ref, per>>, "this", cookies)

\* setTokens reading document.cookie back into the cached cookie string.
SetTokensRefreshingCache(id, acc, ref, per) ==
    /\ nops < MaxOps
    /\ nops' = nops + 1
    /\ UNCHANGED <<client_side, clock, location, prefix, user>>
    /\ IF ~client_side
       THEN /\ last' = Call("setTokens", <<id, acc, ref, per>>, "throw", <<>>)
            /\ UNCHANGED <<id_token, access_token, refresh_token, persist, jar,
                           cookie_string>>
       ELSE LET cookies == SetTokensCookies(prefix, id, acc, ref, per, clock)
            IN  /\ access_token' = Some(acc)
                /\ id_token' = Some(id)
                /\ refresh_token' = Some(ref)
                /\ persist' = Some(TruthyBool(per))
                /\ jar' = SetCookies(jar, cookies, clock, location)
                /\ cookie_string' = Some(DocumentCookie(jar', location, clock))
                /\ last' = Call("setTokens", <<id, acc, ref, per>>, "this", cookies)

\* setTokens with the environment check after the assignments.
SetTokensLateCheck(id, acc, ref, per) ==
    /\ nops < MaxOps
    /\ nops' = nops + 1
    /\ UNCHANGED <<client_side, clock, location, prefix, user, cookie_string>>
    /\ access_token' = Some(acc)
    /\ id_token' = Some(id)
    /\ refresh_token' = Some(ref)
    /\ persist' = Some(TruthyBool(per))
    /\ IF ~client_side
       THEN /\ last' = Call("setTokens", <<id, acc, ref, per>>, "throw", <<>>)
            /\ UNCHANGED jar
       ELSE LET cookies == SetTokensCookies(prefix, id, acc, ref, per, clock)
            IN  /\ jar' = SetCookies(jar, cookies, clock, location)
                /\ last' = Call("setTokens", <<id, acc, ref, per>>, "this", cookies)

\* setTokens({ access_token, id_token, refresh_token, persist }).
SetTokens(id, acc, ref, per) ==
    /\ nops < MaxOps
    /\ nops' = nops + 1
    /\ UNCHANGED <<client_side, clock, location, prefix, user, cookie_string>>
    /\ IF ~client_side
       THEN /\ last' = Call("setTokens", <<id, acc, ref, per>>, "throw", <<>>)
            /\ UNCHANGED <<id_token, access_token, refresh_token, persist, jar>>
       ELSE LET cookies == SetTokensCookies(prefix, id, acc, ref, per, clock)
            IN  /\ access_token' = Some(acc)
                /\ id_token' = Some(id)
                /\ refresh_token' = Some(ref)
                /\ persist' = Some(TruthyBool(per))
                /\ jar' = SetCookies(jar, cookies, clock, location)
                /\ last' = Call("setTokens", <<id, acc, ref, per>>, "this", cookies)

\* The writes, from the i-th on, that the jar stores: those whose position
\* in the sequence is in accepted.
RECURSIVE Stored(_, _, _)
Stored(scs, accepted, i) ==
    IF i > Len(scs) THEN <<>>
    ELSE (IF i \in accepted THEN <<scs[i]>> ELSE <<>>) \o Stored(scs, accepted, i + 1)

\* setTokens assigning the fields only when the jar stored every write.
SetTokensAllOrNothing(id, acc, ref, per, accepted) ==
    /\ nops < MaxOps
    /\ nops' = nops + 1
    /\ UNCHANGED <<client_side, clock, location, prefix, user, cookie_string>>
    /\ IF ~client_side
       THEN /\ last' = Call("setTokens", <<id, acc, ref, per>>, "throw", <<>>)
            /\ UNCHANGED <<id_token, access_token, refresh_token, persist, jar>>
       ELSE LET cookies == SetTokensCookies(prefix, id, acc, ref, per, clock)
                stored == Stored(cookies, accepted, 1)
            IN  /\ IF stored = cookies
                   THEN /\ access_token' = Some(acc)
                        /\ id_token' = Some(id)
                        /\ refresh_token' = Some(ref)
                        /\ persist' = Some(TruthyBool(per))
                   ELSE UNCHANGED <<id_token, access_token, refresh_token, persist>>
                /\ jar' = SetCookies(jar, stored, clock, location)
                /\ last' = Call("setTokens", <<id, acc, ref, per>>, "this", stored)

\* setTokens in a browser that drops some of the writes to document.cookie
\* without raising: the jar stores the writes whose position is in accepted.
SetTokensDropping(id, acc, ref, per, accepted) ==
    /\ nops < MaxOps
    /\ nops' = nops + 1
    /\ UNCHANGED <<client_side, clock, location, prefix, user, cookie_string>>
    /\ IF ~client_side
       THEN /\ last' = Call("setTokens", <<id, acc, ref, per>>, "throw", <<>>)
            /\ UNCHANGED <<id_token, access_token, refresh_token, persist, jar>>
       ELSE LET cookies == SetTokensCookies(prefix, id, acc, ref, per, clock)
                stored == Stored(cookies, accepted, 1)
            IN  /\ access_token' = Some(acc)
                /\ id_token' = Some(id)
                /\ refresh_token' = Some(ref)
                /\ persist' = Some(TruthyBool(per))
                /\ jar' = SetCookies(jar, stored, clock, location)
                /\ last' = Call("setTokens", <<id, acc, ref, per>>, "this", stored)

\* setTokens of another store, of prefix q, in the same browser.
OtherSetTokens(q, id, acc, ref, per) ==
    /\ nops < MaxOps
    /\ client_side
    /\ nops' = nops + 1
    /\ UNCHANGED <<client_side, clock, location, store>>
    /\ LET cookies == SetTokensCookies(q, id, acc, ref, per, clock)
       IN  /\ jar' = SetCookies(jar, cookies, clock, location)
           /\ last' = Call("other.setTokens", <<q, id, acc, ref, per>>, "this", cookies)

\* clearTokens of another store, of prefix q, in the same browser.
OtherClearTokens(q) ==
    /\ nops < MaxOps
    /\ client_side
    /\ nops' = nops + 1
    /\ UNCHANGED <<client_side, clock, location, store>>
    /\ LET cookies == ClearTokensCookies(q, clock)
       IN  /\ jar' = SetCookies(jar, cookies, clock, location)
           /\ last' = Call("other.clearTokens", <<q>>, "this", cookies)

\* clearTokens throwing, as setTokens does, where there is no window.
ClearTokensThrows ==
    /\ nops < MaxOps
    /\ nops' = nops + 1
    /\ UNCHANGED <<client_side, clock, location, store>>
    /\ IF ~client_side
       THEN /\ last' = Call("clearTokens", <<>>, "throw", <<>>)
            /\ UNCHANGED jar
       ELSE LET cookies == ClearTokensCookies(prefix, clock)
            IN  /\ jar' = SetCookies(jar, cookies, clock, location)
                /\ last' = Call("clearTokens", <<>>, "this", cookies)

\* clearTokens().
ClearTokens ==
    /\ nops < MaxOps
    /\ nops' = nops + 1
    /\ UNCHANGED <<client_side, clock, location, store>>
    /\ IF ~client_side
       THEN /\ last' = Call("clearTokens", <<>>, "undefined", <<>>)
            /\ UNCHANGED jar
       ELSE LET cookies == ClearTokensCookies(prefix, clock)
            IN  /\ jar' = SetCookies(jar, cookies, clock, location)
                /\ last' = Call("clearTokens", <<>>, "this", cookies)

\* decode().
Decode ==
    /\ nops < MaxOps
    /\ nops' = nops + 1
    /\ user' = DecodedUser(id_token)
    /\ last' = Call("decode", <<>>, "this", <<>>)
    /\ UNCHANGED <<client_side, clock, location, jar, prefix, id_token, access_token,
                   refresh_token, persist, cookie_string>>

\* isExpired reading the claims of the last decode().
IsExpiredStale ==
    /\ nops < MaxOps
    /\ nops' = nops + 1
    /\ last' = Call("isExpired", <<>>,
                    IF user = None THEN "throw" ELSE ExpiredAnswer(user, clock), <<>>)
    /\ UNCHANGED <<client_side, clock, location, jar, store>>

\* isExpired().
IsExpired ==
    /\ nops < MaxOps
    /\ nops' = nops + 1
    /\ user' = DecodedUser(id_token)
    /\ last' = Call("isExpired", <<>>, ExpiredAnswer(DecodedUser(id_token), clock), <<>>)
    /\ UNCHANGED <<client_side, clock, location, jar, prefix, id_token, access_token,
                   refresh_token, persist, cookie_string>>

(***************************************************************************)
(* The environment: the document moves to another page, time passes.       *)
(***************************************************************************)
Navigate(loc) ==
    /\ nops < MaxOps
    /\ client_side
    /\ loc /= location
    /\ nops' = nops + 1
    /\ location' = loc
    /\ last' = Call("navigate", <<loc>>, "", <<>>)
    /\ UNCHANGED <<client_side, clock, jar, store>>

Tick(t) ==
    /\ nops < MaxOps
    /\ t > clock
    /\ nops' = nops + 1
    /\ clock' = t
    /\ last' = Call("tick", <<t>>, "", <<>>)
    /\ UNCHANGED <<client_side, location, jar, store>>

\* The arguments getTokens is called with: none, the empty string, a string
\* from elsewhere and, in a browser, document.cookie.
GetTokensInputs ==
    {None, Some(<<>>)} \cup {Some(s) : s \in SampleCookies(prefix)}
    \cup (IF client_side THEN {Some(DocumentCookie(jar, location, clock))} ELSE {})

Next ==
    \/ \E arg \in GetTokensInputs : GetTokens(arg)
    \/ \E in \in SetTokensInputs : SetTokens(in[1], in[2], in[3], in[4])
    \/ ClearTokens
    \/ Decode
    \/ IsExpired
    \/ \E loc \in DocPaths : Navigate(loc)
    \/ \E t \in ClockValues : Tick(t)

Spec == Init /\ [][Next]_vars

\* The positions of the four writes of setTokens.
Writes == 1..4

\* What setTokens is called with where writes are dropped: a persisted
\* triplet and a triplet for the session.
DroppingInputs ==
    {<<JwtExp(1), <<"a">>, <<"r">>, Some(TRUE)>>,
     <<Malformed, <<"b", ";", "%">>, <<"q", "=", " ">>, None>>}

\* The store in a browser that may drop any of the writes of setTokens.
NextDropping ==
    \/ \E arg \in GetTokensInputs : GetTokens(arg)
    \/ \E in \in DroppingInputs : \E accepted \in SUBSET Writes :
          SetTokensDropping(in[1], in[2], in[3], in[4], accepted)
    \/ ClearTokens
    \/ Decode
    \/ IsExpired
    \/ \E loc \in DocPaths : Navigate(loc)
    \/ \E t \in ClockValues : Tick(t)

SpecDropping == Init /\ [][NextDropping]_vars

\* What the other stores are given to write.
OtherInputs ==
    {<<JwtNoExp, <<"a", "2">>, <<"r", "2">>, Some(TRUE)>>,
     <<Malformed, <<"a", "3">>, <<"r", "3">>, None>>}

\* The store and the stores of the other prefixes, all of one browser.
NextShared ==
    \/ Next
    \/ \E q \in Prefixes \ {prefix} : \E in \in OtherInputs :
          OtherSetTokens(q, in[1], in[2], in[3], in[4])
    \/ \E q \in Prefixes \ {prefix} : OtherClearTokens(q)

SpecShared == Init /\ [][NextShared]_vars

(***************************************************************************)
(* The claims.                                                             *)
(***************************************************************************)
\* This step is a call of op.
Calls(op) == nops' = nops + 1 /\ last'.op = op

\* This step is getTokens(document.cookie).
ReadsJar ==
    /\ Calls("getTokens")
    /\ client_side
    /\ last'.args = <<Some(DocumentCookie(jar, location, clock))>>

\* undefined or the empty string.
Empty(m) == m = None \/ m = Some(<<>>)

\* The name of a serialized cookie.
WrittenName(sc) == Head(Split(sc.pair, "="))

\* C1: setTokens in a browser followed by getTokens on the string the jar
\* now reports leaves the instance with the id_token, access_token,
\* refresh_token and persist flag that were passed to setTokens, whatever
\* the jar held before.
C1_RoundTrip ==
    [][(last.op = "setTokens" /\ last.ret = "this" /\ ReadsJar)
        => /\ id_token' = Some(last.args[1])
           /\ access_token' = Some(last.args[2])
           /\ refresh_token' = Some(last.args[3])
           /\ persist' = Some(TruthyBool(last.args[4]))]_vars

\* C2: in a browser, clearTokens followed by getTokens on the string the
\* jar now reports leaves id_token, access_token and refresh_token
\* undefined or empty.
C2_ClearThenRead ==
    [][(last.op = "clearTokens" /\ ReadsJar)
        => Empty(id_token') /\ Empty(access_token') /\ Empty(refresh_token')]_vars

\* C3: isExpired() answers false when the exp claim is absent or the token
\* does not decode, true when exp * 1000 is before the clock, and false
\* when exp * 1000 is the clock or after it.
C3_IsExpiredResult ==
    last.op = "isExpired" =>
        LET payload == jwt(id_token)
        IN  IF payload = None \/ Get(payload).exp = None
            THEN last.ret = "false"
            ELSE IF Get(Get(payload).exp) * 1000 < clock
                 THEN last.ret = "true"
                 ELSE last.ret = "false"

\* C4: setTokens outside a browser fails and changes nothing: no cookie is
\* written and the token fields, persist, the cached cookie string and the
\* claims are as before the call.
C4_SetTokensOutsideBrowser ==
    [][(~client_side /\ Calls("setTokens"))
        => /\ last'.ret = "throw"
           /\ last'.writes = <<>>
           /\ UNCHANGED <<jar, id_token, access_token, refresh_token, persist,
                          cookie_string, user>>]_vars

C4_Witness ==
    ~client_side /\ last.op = "setTokens" /\ last.ret = "throw" /\ id_token /= None

\* C5: setTokens with persist true writes the id_token, access_token,
\* refresh_token and keep cookies, keep with the value "true", each with an
\* expiry one year ahead and max-age 31536000; with persist false or left
\* out it writes the three token cookies only, none with expires or max-age.
C5_PersistencePolicy ==
    (last.op = "setTokens" /\ last.ret = "this") =>
        LET w == last.writes
            tokens == <<CookieName(prefix, "id_token"), CookieName(prefix, "access_token"),
                        CookieName(prefix, "refresh_token")>>
        IN  /\ \A i \in 1..3 : WrittenName(w[i]) = tokens[i]
            /\ IF TruthyBool(last.args[4])
               THEN /\ Len(w) = 4
                    /\ w[4].pair = CookieName(prefix, "keep") \o <<"=", "true">>
                    /\ \A i \in 1..4 :
                          /\ w[i].maxAge = Some(31536000)
                          /\ w[i].expires = Some(clock \div 1000 + 31536000)
               ELSE /\ Len(w) = 3
                    /\ \A i \in 1..3 : w[i].maxAge = None /\ w[i].expires = None

C5_Witness ==
    /\ last.op = "setTokens"
    /\ last.args[4] = Some(TRUE)
    /\ Len(last.writes) = 4
    /\ \E i \in 1..Len(jar) : jar[i].name = CookieName(prefix, "keep")

\* C6: every cookie write of clearTokens and every cookie write of
\* setTokens with persist true carries the path "/".
C6_PathAttribute ==
    (last.op = "clearTokens" \/ (last.op = "setTokens" /\ TruthyBool(last.args[4])))
        => \A i \in 1..Len(last.writes) : last.writes[i].path = Some(<<>>)

\* A string whose second "."-separated segment encodes a JSON text.
WellFormed(token) ==
    /\ token /= None
    /\ Len(Split(Get(token), ".")) >= 2
    /\ Split(Get(token), ".")[2] \in
          {<<ExpSegments[n]>> : n \in 1..Len(ExpSegments)} \cup {<<"pSub">>, <<"pNull">>}

\* C7: decode() returns normally in every state; the claims are the payload
\* of id_token when it is a well-formed token and the empty mapping
\* otherwise.
C7_DecodeNeverRaises ==
    last.op = "decode" =>
        /\ last.ret = "this"
        /\ IF WellFormed(id_token)
           THEN user = JsonOf(Split(Get(id_token), ".")[2][1])
           ELSE user = Some(EmptyClaims)

C7_Witness ==
    /\ last.op = "decode"
    /\ TruthyString(id_token)
    /\ ~WellFormed(id_token)
    /\ user = Some(EmptyClaims)

\* C8: getTokens with no argument or an empty one, on an instance with no
\* cached cookie string, returns the instance and leaves the token fields,
\* persist, the cached cookie string and the claims as they were.
C8_GetTokensNoSource ==
    [][(Calls("getTokens") /\ ~TruthyString(last'.args[1]) /\ ~TruthyString(cookie_string))
        => /\ last'.ret = "this"
           /\ UNCHANGED <<id_token, access_token, refresh_token, persist, cookie_string,
                          user, jar>>]_vars

C8_Witness ==
    /\ last.op = "getTokens"
    /\ ~TruthyString(last.args[1])
    /\ ~TruthyString(cookie_string)
    /\ TruthyString(id_token)

\* C9: clearTokens outside a browser does not raise, writes no cookie and
\* leaves every field of the instance as it was.
C9_ClearTokensOutsideBrowser ==
    [][(~client_side /\ Calls("clearTokens"))
        => /\ last'.ret /= "throw"
           /\ last'.writes = <<>>
           /\ UNCHANGED <<jar, store>>]_vars

C9_Witness ==
    ~client_side /\ last.op = "clearTokens" /\ TruthyString(id_token)

\* C10: every call of getTokens, setTokens, clearTokens and decode that
\* returns normally returns the instance, in a browser and outside one.
C10_Chaining ==
    (last.op \in {"getTokens", "setTokens", "clearTokens", "decode"} /\ last.ret /= "throw")
        => last.ret = "this"

\* This step is a getTokens that reads a cookie string: its argument or the
\* cached string is not empty.
ReadsString ==
    /\ Calls("getTokens")
    /\ (TruthyString(last'.args[1]) \/ TruthyString(cookie_string))

\* The string such a step reads: the argument, the cached string when the
\* argument is left out.
StringRead == IF last'.args[1] = None THEN Get(cookie_string) ELSE Get(last'.args[1])

\* The value the cookie string str gives to the prefixed cookie key.
ValueIn(str, key) == Lookup(parse(str), CookieName(prefix, key))

\* C12: a getTokens that reads leaves each of id_token, access_token and
\* refresh_token equal to the value of its prefixed cookie in the string
\* read, undefined when the string has none, whatever the field held, and
\* leaves the cached cookie string equal to the string read.
C12_GetTokensOverwrites ==
    [][ReadsString
        => /\ id_token' = ValueIn(StringRead, "id_token")
           /\ access_token' = ValueIn(StringRead, "access_token")
           /\ refresh_token' = ValueIn(StringRead, "refresh_token")
           /\ cookie_string' = Some(StringRead)]_vars

\* A read that found no access_token cookie after a setTokens had set one.
C12_Witness ==
    /\ last.op = "getTokens"
    /\ cookie_string = last.args[1]
    /\ TruthyString(id_token)
    /\ access_token = None
    /\ \E i \in 1..Len(jar) : jar[i].name = CookieName(prefix, "access_token")

\* C13: after a getTokens that reads, persist is true exactly when the
\* prefixed keep cookie is in the string with a non-empty value, whatever
\* that value says.
C13_PersistFromPresence ==
    [][ReadsString
        => persist' = Some(/\ ValueIn(StringRead, "keep") /= None
                           /\ ValueIn(StringRead, "keep") /= Some(<<>>))]_vars

C13_Witness ==
    /\ last.op = "getTokens"
    /\ TruthyString(cookie_string)
    /\ ValueIn(Get(cookie_string), "keep") = Some(<<"false">>)
    /\ persist = Some(TRUE)

\* C14: setTokens, getTokens and clearTokens leave the claims as they are:
\* after id_token changes the claims are those of the last decode().
C14_ClaimsNotInvalidated ==
    [][(Calls("setTokens") \/ Calls("getTokens") \/ Calls("clearTokens"))
        => user' = user]_vars

\* Claims that are not those of the id_token now held.
C14_Witness ==
    /\ last.op \in {"setTokens", "getTokens"}
    /\ user /= None
    /\ user /= DecodedUser(id_token)

\* The cookies of the jar that have the prefixed name key.
Named(j, key) ==
    LET IsKey(c) == c.name = CookieName(prefix, key) IN SelectSeq(j, IsKey)

\* C15: clearTokens in a browser writes the four prefixed cookies with an
\* expiry that has passed, after which the jar holds none of them, and
\* leaves id_token, access_token, refresh_token, persist, the cached cookie
\* string and the claims as they were; a decode() or isExpired() right
\* after it still decodes the token that was cleared.
C15_ClearKeepsMemory ==
    [][/\ (client_side /\ Calls("clearTokens"))
          => /\ UNCHANGED <<id_token, access_token, refresh_token, persist,
                            cookie_string, user>>
             /\ Len(last'.writes) = 4
             /\ \A i \in 1..4 : Expired(last'.writes[i].expires, clock)
             /\ \A key \in {"id_token", "access_token", "refresh_token", "keep"} :
                   /\ \E i \in 1..4 : WrittenName(last'.writes[i]) = CookieName(prefix, key)
                   /\ Named(jar', key) = <<>>
       /\ (last.op = "clearTokens" /\ (Calls("decode") \/ Calls("isExpired")))
          => /\ id_token' = id_token
             /\ user' = DecodedUser(id_token)]_vars

\* C17: setTokens with persist false or left out leaves the prefixed keep
\* cookie of the jar as it was: its presence, value and expiry.
C17_KeepLeftAlone ==
    [][(client_side /\ Calls("setTokens") /\ ~TruthyBool(last'.args[4]))
        => Named(jar', "keep") = Named(jar, "keep")]_vars

C17_Witness ==
    /\ last.op = "setTokens"
    /\ last.ret = "this"
    /\ ~TruthyBool(last.args[4])
    /\ Named(jar, "keep") /= <<>>

\* C18: the jar, empty at first, holds after any setTokens and clearTokens
\* calls all three prefixed token cookies or none of them, and the prefixed
\* keep cookie only when it holds the three.
C18_TokensFormAUnit ==
    LET held == {key \in {"id_token", "access_token", "refresh_token"} :
                    Named(jar, key) /= <<>>}
    IN  /\ held = {} \/ held = {"id_token", "access_token", "refresh_token"}
        /\ Named(jar, "keep") /= <<>> => held /= {}

\* The jar emptied of the three tokens and the keep cookie it held.
C18_Witness ==
    /\ last.op = "clearTokens"
    /\ client_side
    /\ nops = 2
    /\ persist = Some(TRUE)
    /\ cookie_string = None
    /\ jar = <<>>

\* C19: setTokens leaves the cached cookie string as it was, and a
\* getTokens() without an argument right after it, on an instance that
\* holds a cached string, sets the tokens and persist from that string.
C19_CacheNotRefreshed ==
    [][/\ Calls("setTokens") => cookie_string' = cookie_string
       /\ (/\ last.op = "setTokens"
           /\ last.ret = "this"
           /\ Calls("getTokens")
           /\ last'.args[1] = None
           /\ TruthyString(cookie_string))
          => /\ id_token' = ValueIn(Get(cookie_string), "id_token")
             /\ access_token' = ValueIn(Get(cookie_string), "access_token")
             /\ refresh_token' = ValueIn(Get(cookie_string), "refresh_token")
             /\ persist' = Some(TruthyString(ValueIn(Get(cookie_string), "keep")))
             /\ cookie_string' = cookie_string]_vars

\* The tokens of the cached string in memory, those just written in the jar.
C19_Witness ==
    /\ last.op = "getTokens"
    /\ last.args = <<None>>
    /\ TruthyString(cookie_string)
    /\ Named(jar, "access_token") /= <<>>
    /\ \A i \in 1..Len(Named(jar, "access_token")) :
          Some(tryDecode(Named(jar, "access_token")[i].value)) /= access_token

\* C20: isExpired() leaves the claims equal to the decoding of the id_token
\* now held, answers from those claims, and changes no token field, persist
\* flag, cached cookie string or cookie.
C20_IsExpiredFresh ==
    [][Calls("isExpired")
        => /\ user' = (IF WellFormed(id_token)
                       THEN JsonOf(Split(Get(id_token), ".")[2][1])
                       ELSE Some(EmptyClaims))
           /\ LET u == Get(user')
              IN  /\ last'.ret \in {"true", "false", "throw"}
                  /\ last'.ret = "throw" <=> u.isNull
                  /\ last'.ret = "true" <=>
                        (/\ ~u.isNull
                         /\ u.exp /= None
                         /\ Get(u.exp) /= 0
                         /\ clock > Get(u.exp) * 1000)
           /\ UNCHANGED <<id_token, access_token, refresh_token, persist,
                          cookie_string, jar>>]_vars

\* An answer of true, the claims those of the id_token held.
C20_Witness ==
    /\ last.op = "isExpired"
    /\ last.ret = "true"
    /\ user = DecodedUser(id_token)

\* The names of the four cookies of a store of prefix q.
NamesOf(q) == {CookieName(q, key) : key \in {"id_token", "access_token", "refresh_token", "keep"}}

\* The cookies of the jar that have one of the four names of prefix q.
CookiesOf(j, q) == LET IsOfQ(c) == c.name \in NamesOf(q) IN SelectSeq(j, IsOfQ)

\* The pieces of a cookie string that do not name a cookie of prefix q.
RECURSIVE PiecesWithout(_, _)
PiecesWithout(pieces, q) ==
    IF pieces = <<>> THEN <<>>
    ELSE LET piece == Head(pieces)
             eq == IndexOf(piece, "=")
         IN  (IF eq /= 0 /\ Trim(SubSeq(piece, 1, eq - 1)) \in NamesOf(q)
              THEN <<>> ELSE <<piece>>)
             \o PiecesWithout(Tail(pieces), q)

\* C11: with the stores of other prefixes writing to the same jar, a
\* setTokens or clearTokens of this store leaves the four cookies of every
\* other prefix as they were, and a getTokens that reads sets the fields to
\* what the string gives without the cookies of the other prefix.
C11_PrefixIsolation ==
    [][\A q \in Prefixes \ {prefix} :
          /\ (Calls("setTokens") \/ Calls("clearTokens"))
             => CookiesOf(jar', q) = CookiesOf(jar, q)
          /\ ReadsString
             => LET cookies == ParsePairs(PiecesWithout(Split(StringRead, ";"), q), <<>>)
                IN  /\ id_token' = Lookup(cookies, CookieName(prefix, "id_token"))
                    /\ access_token' = Lookup(cookies, CookieName(prefix, "access_token"))
                    /\ refresh_token' = Lookup(cookies, CookieName(prefix, "refresh_token"))
                    /\ persist' = Some(TruthyString(
                                     Lookup(cookies, CookieName(prefix, "keep"))))]_vars

\* C16: after setTokens in a browser the id_token, access_token and
\* refresh_token of the instance are the arguments and persist is whether
\* the persist argument is true, whichever of the writes the jar stored.
C16_MemoryUnconditional ==
    [][(client_side /\ Calls("setTokens"))
        => /\ id_token' = Some(last'.args[1])
           /\ access_token' = Some(last'.args[2])
           /\ refresh_token' = Some(last'.args[3])
           /\ persist' = Some(last'.args[4] = Some(TRUE))]_vars

\* The access_token write stored, the id_token write dropped, both in memory.
C16_Witness ==
    /\ client_side
    /\ last.op = "setTokens"
    /\ Named(jar, "id_token") = <<>>
    /\ Named(jar, "access_token") /= <<>>
    /\ id_token = Some(last.args[1])
    /\ access_token = Some(last.args[2])

====
